---- MODULE Spec2Model ----
(***************************************************************************)
(* Model of enact.py: Enact.string, the selection -> transform ->          *)
(* reconciliation pipeline, with the helpers it calls (ensureHTML,         *)
(* cssSelection, applyTransform) and the Actions it is given.              *)
(*                                                                         *)
(* Text is a sequence of one-character strings.  A genshi Stream is a      *)
(* sequence of events [kind, tag, data]: START (data = the class           *)
(* attribute, "" when absent), END, TEXT (data = one character).           *)
(* The serialisation of <p class="a">b</p> is written  < p a > b < / p > . *)
(***************************************************************************)
EXTENDS Naturals, Sequences, FiniteSets

\* ---------------------------------------------------------------- bounds
\* longest transform_list (selectors and action lists, flat)
MaxTransformLen == 4
\* longest action_list (functions and their arguments, flat)
MaxChainLen == 2

None == "None"

\* ------------------------------------------------------- genshi streams
START(tag, cls) == [kind |-> "START", tag |-> tag, data |-> cls]
END(tag) == [kind |-> "END", tag |-> tag, data |-> ""]
TEXT(c) == [kind |-> "TEXT", tag |-> "", data |-> c]

\* the text of one event, as the 'html' serializer writes it
RenderEvent(e) ==
    CASE e.kind = "START" ->
            IF e.data = "" THEN <<"<", e.tag, ">">> ELSE <<"<", e.tag, e.data, ">">>
      [] e.kind = "END" -> <<"<", "/", e.tag, ">">>
      [] OTHER -> <<e.data>>

RECURSIVE RenderEvents(_)
RenderEvents(stream) ==
    IF stream = <<>> THEN <<>>
    ELSE RenderEvent(Head(stream)) \o RenderEvents(Tail(stream))

\* <!DOCTYPE html>, written  < ! >
DOCTYPE == <<"<", "!", ">">>

\* stream.render('html', doctype=doctype): the events' text, after the
\* doctype declaration when one is asked for
render(stream, doctype) ==
    IF doctype = None THEN RenderEvents(stream) ELSE DOCTYPE \o RenderEvents(stream)

\* HTML(text, encoding='utf-8'): the parser, text to events
RECURSIVE HTMLFrom(_, _)
HTMLFrom(text, i) ==
    IF i > Len(text) THEN <<>>
    ELSE IF text[i] = "<" /\ i + 3 <= Len(text) /\ text[i + 1] = "/"
         THEN <<END(text[i + 2])>> \o HTMLFrom(text, i + 4)
    ELSE IF text[i] = "<" /\ i + 2 <= Len(text) /\ text[i + 1] = "!"
         THEN HTMLFrom(text, i + 3)
    ELSE IF text[i] = "<" /\ i + 2 <= Len(text) /\ text[i + 2] = ">"
         THEN <<START(text[i + 1], "")>> \o HTMLFrom(text, i + 3)
    ELSE IF text[i] = "<" /\ i + 3 <= Len(text)
         THEN <<START(text[i + 1], text[i + 2])>> \o HTMLFrom(text, i + 4)
    ELSE <<TEXT(text[i])>> \o HTMLFrom(text, i + 1)

HTML(text) == HTMLFrom(text, 1)

\* ------------------------------------------------------------ ensureHTML
\* Python values handed to ensureHTML: a Stream, a str, or anything else
StreamObj(s) == [type |-> "Stream", stream |-> s, text |-> <<>>]
StrObj(t) == [type |-> "str", stream |-> <<>>, text |-> t]
NoneObj == [type |-> "NoneType", stream |-> <<>>, text |-> <<>>]

\* ensureHTML raises EnactException for a value that is neither a Stream,
\* a string nor a list
ensureHTMLRaises(obj) == obj.type \notin {"Stream", "str"}

\* ensureHTML(obj, recast_stream): a Stream is kept, or (recast) rendered
\* and parsed again; a string is parsed
ensureHTML(obj, recast_stream) ==
    IF obj.type = "Stream" /\ ~recast_stream THEN obj.stream
    ELSE IF obj.type = "Stream" THEN HTML(RenderEvents(obj.stream))
    ELSE HTML(obj.text)

\* ---------------------------------------------------------- cssSelection
\* cssToXpath: what the translated expression tests, [anc, tag, cls]:
\* an element named tag ("" any) of class cls ("" any) below an element of
\* class anc ("" none asked)
cssToXpath(css_selector) ==
    CASE css_selector = ".a" -> [anc |-> "", tag |-> "", cls |-> "a"]
      [] css_selector = ".a p" -> [anc |-> "a", tag |-> "p", cls |-> ""]
      [] css_selector = ".b p" -> [anc |-> "b", tag |-> "p", cls |-> ""]

\* the path's test of one START event, open = the START events of the
\* elements that are open around it
PathTest(xpath, e, open) ==
    /\ xpath.tag \in {"", e.tag}
    /\ xpath.cls \in {"", e.data}
    /\ xpath.anc = "" \/ \E k \in 1..Len(open) : open[k].data = xpath.anc

\* Stream.select: the events of every matched subtree, in document order;
\* depth > 0 inside a matched subtree, which is yielded whole and once
RECURSIVE SelectFrom(_, _, _, _, _)
SelectFrom(stream, xpath, i, open, depth) ==
    IF i > Len(stream) THEN <<>>
    ELSE LET e == stream[i] IN
         CASE e.kind = "START" ->
                LET hit == depth > 0 \/ PathTest(xpath, e, open) IN
                (IF hit THEN <<e>> ELSE <<>>)
                \o SelectFrom(stream, xpath, i + 1, Append(open, e),
                              IF hit THEN depth + 1 ELSE 0)
           [] e.kind = "END" ->
                (IF depth > 0 THEN <<e>> ELSE <<>>)
                \o SelectFrom(stream, xpath, i + 1,
                              IF open = <<>> THEN open
                              ELSE SubSeq(open, 1, Len(open) - 1),
                              IF depth > 0 THEN depth - 1 ELSE 0)
           [] OTHER ->
                (IF depth > 0 THEN <<e>> ELSE <<>>)
                \o SelectFrom(stream, xpath, i + 1, open, depth)

select(stream, xpath) == SelectFrom(stream, xpath, 1, <<>>, 0)

\* cssSelection(css_selector, html_document, translator)
cssSelection(css_selector, html_document) ==
    ensureHTML(StreamObj(select(ensureHTML(StreamObj(html_document), FALSE),
                                cssToXpath(css_selector))), TRUE)

\* ---------------------------------------------------------------- Actions
\* Actions.setAttrs(selection, {"class": value}): the attribute of every
\* top-level element of the selection
RECURSIVE SetAttrsFrom(_, _, _, _)
SetAttrsFrom(stream, value, i, depth) ==
    IF i > Len(stream) THEN <<>>
    ELSE LET e == stream[i] IN
         CASE e.kind = "START" ->
                <<IF depth = 0 THEN START(e.tag, value) ELSE e>>
                \o SetAttrsFrom(stream, value, i + 1, depth + 1)
           [] e.kind = "END" ->
                <<e>> \o SetAttrsFrom(stream, value, i + 1,
                                      IF depth > 0 THEN depth - 1 ELSE 0)
           [] OTHER -> <<e>> \o SetAttrsFrom(stream, value, i + 1, depth)

setAttrs(selection, value) == SetAttrsFrom(selection, value, 1, 0)

\* the names a transform_list can hold as functions:
\*   setAttrs            an Action that returns a Stream
\*   appendHtml          Actions.appendHtml calls .end() on the Stream that
\*                       Actions.append returned: AttributeError
\*   unwrap              Actions.unwrap with a tag_list returns None
\*   paragraph           a caller's function returning the string <p>data</p>
Fns == {"setAttrs", "appendHtml", "unwrap", "paragraph"}
Args == {"b"}

\* fn(trans_selection, trans_data) raises
FnRaises(fn) == fn = "appendHtml"

\* the value fn(trans_selection, trans_data) returns
FnValue(fn, trans_selection, trans_data) ==
    CASE fn = "setAttrs" -> StreamObj(setAttrs(trans_selection, trans_data))
      [] fn = "paragraph" -> StrObj(<<"<", "p", ">", trans_data, "<", "/", "p", ">">>)
      [] OTHER -> NoneObj

\* ---------------------------------------------------------- applyTransform
Returned(stream) == [ok |-> TRUE, stream |-> stream, exc |-> None, fn |-> None]
Raised(exc, fn) == [ok |-> FALSE, stream |-> <<>>, exc |-> exc, fn |-> fn]

\* applyTransform(trans_selection, action_pair): fn is called outside the
\* try block, so what it raises leaves applyTransform as it is; a value
\* ensureHTML cannot coerce becomes TransformException, naming fn
applyTransform(trans_selection, action_pair) ==
    LET fn == action_pair[1]
        trans_data == action_pair[2]
        transformed == FnValue(fn, trans_selection, trans_data)
    IN  IF FnRaises(fn) THEN Raised("AttributeError", fn)
        ELSE IF ensureHTMLRaises(transformed) THEN Raised("TransformException", fn)
        ELSE Returned(ensureHTML(transformed, TRUE))

\* zip(l[0::2], l[1::2]): the pairs of a flat list; an unpaired last
\* element is left out
zip(l) == [k \in 1..(Len(l) \div 2) |-> <<l[2 * k - 1], l[2 * k]>>]

\* reduce(Enact.applyTransform, action_pairs, selection), from pair k on
RECURSIVE reduceTransforms(_, _, _)
reduceTransforms(action_pairs, acc, k) ==
    IF k > Len(action_pairs) THEN Returned(acc)
    ELSE LET r == applyTransform(acc, action_pairs[k])
         IN  IF r.ok THEN reduceTransforms(action_pairs, r.stream, k + 1) ELSE r

\* the body of the for loop up to the dictionary store: the selection of
\* one (css_selector, action_list) and its transformed selection
selectionOf(transform, htmldoc) == cssSelection(transform[1], htmldoc)

transformedSelection(transform, htmldoc) ==
    reduceTransforms(zip(transform[2]), selectionOf(transform, htmldoc), 1)

\* faulty variant of dictStore: a key already stored keeps its value
dictStoreFirst(d, key, value) ==
    [k \in DOMAIN d \cup {key} |-> IF k \in DOMAIN d THEN d[k] ELSE value]

\* replace_dict[key] = value
dictStore(d, key, value) ==
    [k \in DOMAIN d \cup {key} |-> IF k = key THEN value ELSE d[k]]

\* ------------------------------------------------------------ str.replace
\* s.replace(old, new): every non-overlapping occurrence, left to right;
\* an empty old matches before every character and at the end
RECURSIVE ReplaceFrom(_, _, _, _)
ReplaceFrom(s, old, new, i) ==
    IF old = <<>>
    THEN IF i > Len(s) THEN new
         ELSE new \o <<s[i]>> \o ReplaceFrom(s, old, new, i + 1)
    ELSE IF i + Len(old) - 1 > Len(s) THEN SubSeq(s, i, Len(s))
    ELSE IF SubSeq(s, i, i + Len(old) - 1) = old
         THEN new \o ReplaceFrom(s, old, new, i + Len(old))
    ELSE <<s[i]>> \o ReplaceFrom(s, old, new, i + 1)

\* faulty variant of replace: the scan resumes one character too far after a match
RECURSIVE ReplaceFromSkipping(_, _, _, _)
ReplaceFromSkipping(s, old, new, i) ==
    IF old = <<>>
    THEN IF i > Len(s) THEN new
         ELSE new \o <<s[i]>> \o ReplaceFromSkipping(s, old, new, i + 1)
    ELSE IF i + Len(old) - 1 > Len(s) THEN SubSeq(s, i, Len(s))
    ELSE IF SubSeq(s, i, i + Len(old) - 1) = old
         THEN new \o ReplaceFromSkipping(s, old, new, i + Len(old) + 1)
    ELSE <<s[i]>> \o ReplaceFromSkipping(s, old, new, i + 1)

replaceSkipping(s, old, new) == ReplaceFromSkipping(s, old, new, 1)

replace(s, old, new) == ReplaceFrom(s, old, new, 1)

\* faulty variant of sortKey: every item sorts alike
sortKeyNone(item) == 0

\* the key of sorted(): len(k)
sortKey(item) == Len(item[1])

\* faulty variant of sortedItems: reverse=True left out
sortedItemsAscending(d) ==
    LET n == Cardinality(DOMAIN d)
        arrangements == {f \in [1..n -> DOMAIN d] :
                            \A a, b \in 1..n : a # b => f[a] # f[b]}
    IN  {[k \in 1..n |-> <<f[k], d[f[k]]>>] :
            f \in {g \in arrangements :
                     \A a, b \in 1..n : a < b => Len(g[a]) <= Len(g[b])}}

\* sorted(replace_dict.items(), key=len(k), reverse=True): the items of the
\* dictionary come in no order the program fixes and the sort is stable,
\* so every arrangement of the items with no key before a longer one
sortedItems(d) ==
    LET n == Cardinality(DOMAIN d)
        arrangements == {f \in [1..n -> DOMAIN d] :
                            \A a, b \in 1..n : a # b => f[a] # f[b]}
    IN  {[k \in 1..n |-> <<f[k], d[f[k]]>>] :
            f \in {g \in arrangements :
                     \A a, b \in 1..n :
                        a < b => sortKey(<<g[a], d[g[a]]>>) >= sortKey(<<g[b], d[g[b]]>>)}}

\* faulty variant of malformed: the parity test the wrong way round
malformedEven(list) == Len(list) % 2 = 0

\* the request list is malformed: len(transform_list) % 2
malformed(list) == Len(list) % 2 = 1

\* ----------------------------------------------------------------- inputs
Selectors == {".a", ".a p", ".b p"}

\* the flat lists of at most n elements whose odd places hold an element of
\* first and whose even places an element of second
RECURSIVE Alternating(_, _, _)
Alternating(first, second, n) ==
    IF n = 0 THEN {<<>>}
    ELSE LET shorter == Alternating(first, second, n - 1)
         IN  shorter \cup {Append(l, x) : l \in {m \in shorter : Len(m) = n - 1},
                                          x \in IF n % 2 = 1 THEN first ELSE second}

\* action lists: fn, arg, fn, arg, ... (the last fn with or without its arg)
ActionLists == Alternating(Fns, Args, MaxChainLen)

\* transform lists: selector, action list, selector, action list, ...
TransformLists == Alternating(Selectors, ActionLists, MaxTransformLen)

\* the documents, as text:
\*   none
\*   DocNested  a parent (.a) around a child (.a p)
\*   DocTwins   the same subtree below two different parents
\*   DocApart   two .a elements with text between them, a .b p in the first
\*   DocMixed   a .a element and a .b p element whose texts are equally long
DocNested == RenderEvents(<<START("d", "a"), START("p", ""), END("p"), END("d")>>)
DocTwins == RenderEvents(<<START("d", "a"), START("p", ""), END("p"), END("d"),
                           START("d", "b"), START("p", ""), END("p"), END("d")>>)
DocApart == RenderEvents(<<START("d", "a"), START("d", "b"), START("p", ""), END("p"),
                           END("d"), END("d"), TEXT("x"),
                           START("d", "a"), END("d")>>)
DocMixed == RenderEvents(<<START("d", "a"), END("d"),
                           START("d", "b"), START("p", "b"), END("p"), END("d")>>)
Documents == {<<>>, DocNested, DocTwins, DocApart, DocMixed}

Doctypes == {"html5", None}

\* ------------------------------------------------------------------ state
VARIABLES
    document_str,    \* argument: the document text
    transform_list,  \* argument: selector, action list, selector, ...
    doctype,         \* the doctype option, "html5" unless overridden
    pc,              \* "call", "for", "reduce", "returned", "raised"
    htmldoc,         \* the parsed document
    transforms,      \* zip(transform_list[0::2], transform_list[1::2])
    n,               \* the for loop's place in transforms
    replace_dict,    \* {original_str: substitution_str}
    items,           \* the sorted items the final reduce walks
    j,               \* the final reduce's place in items
    result,          \* the final reduce's accumulator
    outcome,         \* what the call returned or raised
    performed        \* the work done so far: "parse", "select", "transform"

vars == <<document_str, transform_list, doctype, pc, htmldoc, transforms, n,
          replace_dict, items, j, result, outcome, performed>>

args == <<document_str, transform_list, doctype>>

NoOutcome == [kind |-> "none", text |-> <<>>, exc |-> None, fn |-> None]
Return(text) == [kind |-> "return", text |-> text, exc |-> None, fn |-> None]
Raise(exc, fn) == [kind |-> "raise", text |-> <<>>, exc |-> exc, fn |-> fn]

EmptyDict == [k \in {} |-> <<>>]

Init ==
    /\ document_str \in Documents
    /\ transform_list \in TransformLists
    /\ doctype = "html5"
    /\ pc = "call"
    /\ htmldoc = <<>>
    /\ transforms = <<>>
    /\ n = 1
    /\ replace_dict = EmptyDict
    /\ items = <<>>
    /\ j = 1
    /\ result = <<>>
    /\ outcome = NoOutcome
    /\ performed = {}

\* if not document_str: return document_str
ReturnEmpty ==
    /\ pc = "call"
    /\ document_str = <<>>
    /\ pc' = "returned"
    /\ outcome' = Return(document_str)
    /\ UNCHANGED <<args, htmldoc, transforms, n, replace_dict, items, j, result,
                   performed>>

\* if len(transform_list) % 2: raise EnactException
RaiseMalformed ==
    /\ pc = "call"
    /\ document_str # <<>>
    /\ malformed(transform_list)
    /\ pc' = "raised"
    /\ outcome' = Raise("EnactException", None)
    /\ UNCHANGED <<args, htmldoc, transforms, n, replace_dict, items, j, result,
                   performed>>

\* doctype = option_overrides.get("doctype", "html5");
\* htmldoc = ensureHTML(document_str); transforms = zip(...); replace_dict = {}
Prepare ==
    /\ pc = "call"
    /\ document_str # <<>>
    /\ ~malformed(transform_list)
    /\ doctype' \in Doctypes
    /\ htmldoc' = ensureHTML(StrObj(document_str), FALSE)
    /\ transforms' = zip(transform_list)
    /\ replace_dict' = EmptyDict
    /\ n' = 1
    /\ performed' = performed \cup {"parse"}
    /\ pc' = "for"
    /\ UNCHANGED <<document_str, transform_list, items, j, result, outcome>>

\* one pass of the for loop: select, transform, store
ForBody ==
    /\ pc = "for"
    /\ n <= Len(transforms)
    /\ LET selection == selectionOf(transforms[n], htmldoc)
           transformed_selection == transformedSelection(transforms[n], htmldoc)
       IN  /\ transformed_selection.ok
           /\ replace_dict' = dictStore(replace_dict, render(selection, None),
                                        render(transformed_selection.stream, None))
    /\ n' = n + 1
    /\ performed' = performed \cup {"select"}
                      \cup (IF zip(transforms[n][2]) # <<>> THEN {"transform"} ELSE {})
    /\ UNCHANGED <<args, pc, htmldoc, transforms, items, j, result, outcome>>

\* one pass of the for loop in which a transform raises
ForRaise ==
    /\ pc = "for"
    /\ n <= Len(transforms)
    /\ LET transformed_selection == transformedSelection(transforms[n], htmldoc)
       IN  /\ ~transformed_selection.ok
           /\ outcome' = Raise(transformed_selection.exc, transformed_selection.fn)
    /\ pc' = "raised"
    /\ performed' = performed \cup {"select", "transform"}
    /\ UNCHANGED <<args, htmldoc, transforms, n, replace_dict, items, j, result>>

\* the arguments of the final reduce: the sorted items and the rendered
\* document
Sort ==
    /\ pc = "for"
    /\ n > Len(transforms)
    /\ items' \in sortedItems(replace_dict)
    /\ j' = 1
    /\ result' = render(htmldoc, doctype)
    /\ pc' = "reduce"
    /\ UNCHANGED <<args, htmldoc, transforms, n, replace_dict, outcome, performed>>

\* one step of the final reduce: result.replace(substring, replacement)
Substitute ==
    /\ pc = "reduce"
    /\ j <= Len(items)
    /\ result' = replace(result, items[j][1], items[j][2])
    /\ j' = j + 1
    /\ UNCHANGED <<args, pc, htmldoc, transforms, n, replace_dict, items, outcome,
                   performed>>

\* the final reduce is through: return its result
ReturnResult ==
    /\ pc = "reduce"
    /\ j > Len(items)
    /\ pc' = "returned"
    /\ outcome' = Return(result)
    /\ UNCHANGED <<args, htmldoc, transforms, n, replace_dict, items, j, result,
                   performed>>

Next ==
    \/ ReturnEmpty
    \/ RaiseMalformed
    \/ Prepare
    \/ ForBody
    \/ ForRaise
    \/ Sort
    \/ Substitute
    \/ ReturnResult

Spec == Init /\ [][Next]_vars

\* ------------------------------------------------- the call as a function
\* the for loop from transform k on: the dictionary it builds, or what a
\* transform raised
RECURSIVE buildReplaceDict(_, _, _, _)
buildReplaceDict(pairs, doc, k, d) ==
    IF k > Len(pairs) THEN [ok |-> TRUE, dict |-> d, exc |-> None, fn |-> None]
    ELSE LET r == transformedSelection(pairs[k], doc)
         IN  IF r.ok
             THEN buildReplaceDict(pairs, doc, k + 1,
                                   dictStore(d, render(selectionOf(pairs[k], doc), None),
                                             render(r.stream, None)))
             ELSE [ok |-> FALSE, dict |-> d, exc |-> r.exc, fn |-> r.fn]

\* the final reduce from item k on
RECURSIVE reduceReplace(_, _, _)
reduceReplace(sorted, acc, k) ==
    IF k > Len(sorted) THEN acc
    ELSE reduceReplace(sorted, replace(acc, sorted[k][1], sorted[k][2]), k + 1)

\* Enact.string(text, *list, doctype=dt): everything the call can come to
string(text, list, dt) ==
    IF text = <<>> THEN {Return(text)}
    ELSE IF malformed(list) THEN {Raise("EnactException", None)}
    ELSE LET doc == ensureHTML(StrObj(text), FALSE)
             built == buildReplaceDict(zip(list), doc, 1, EmptyDict)
         IN  IF ~built.ok THEN {Raise(built.exc, built.fn)}
             ELSE {Return(reduceReplace(sorted, render(doc, dt), 1)) :
                      sorted \in sortedItems(built.dict)}

\* ------------------------------------------------------------ the claims
\* sub occurs in s
Occurs(sub, s) ==
    \E i \in 1..(Len(s) + 1) :
        i + Len(sub) - 1 <= Len(s) /\ SubSeq(s, i, i + Len(sub) - 1) = sub

\* where sub first occurs in s, Len(s) + 2 when it does not
FirstAt(sub, s) ==
    IF Occurs(sub, s)
    THEN CHOOSE i \in 1..(Len(s) + 1) :
            /\ i + Len(sub) - 1 <= Len(s) /\ SubSeq(s, i, i + Len(sub) - 1) = sub
            /\ \A m \in 1..(i - 1) : SubSeq(s, m, m + Len(sub) - 1) # sub
    ELSE Len(s) + 2

\* where the last occurrence of sub in s ends, 0 when it does not occur
LastEnd(sub, s) ==
    IF Occurs(sub, s)
    THEN CHOOSE e \in 0..Len(s) :
            /\ e - Len(sub) >= 0 /\ SubSeq(s, e - Len(sub) + 1, e) = sub
            /\ \A m \in (e + 1)..Len(s) :
                  m - Len(sub) < 0 \/ SubSeq(s, m - Len(sub) + 1, m) # sub
    ELSE 0

\* the original and the transformed text of request k of the call
keyOf(k) == render(selectionOf(transforms[k], htmldoc), None)
valOf(k) == render(transformedSelection(transforms[k], htmldoc).stream, None)

\* the text of the document before any substitution
baseText == render(htmldoc, doctype)

\* the events of the document that lie in a subtree the selector matches
RECURSIVE MatchedFrom(_, _, _, _, _)
MatchedFrom(stream, xpath, i, open, depth) ==
    IF i > Len(stream) THEN {}
    ELSE LET e == stream[i] IN
         CASE e.kind = "START" ->
                LET hit == depth > 0 \/ PathTest(xpath, e, open) IN
                (IF hit THEN {i} ELSE {})
                \cup MatchedFrom(stream, xpath, i + 1, Append(open, e),
                                 IF hit THEN depth + 1 ELSE 0)
           [] e.kind = "END" ->
                (IF depth > 0 THEN {i} ELSE {})
                \cup MatchedFrom(stream, xpath, i + 1,
                                 IF open = <<>> THEN open
                                 ELSE SubSeq(open, 1, Len(open) - 1),
                                 IF depth > 0 THEN depth - 1 ELSE 0)
           [] OTHER ->
                (IF depth > 0 THEN {i} ELSE {})
                \cup MatchedFrom(stream, xpath, i + 1, open, depth)

Matched(k) == MatchedFrom(htmldoc, cssToXpath(transforms[k][1]), 1, <<>>, 0)

\* the transform list without its request k
WithoutRequest(list, k) ==
    SubSeq(list, 1, 2 * k - 2) \o SubSeq(list, 2 * k + 1, Len(list))

\* the transform list of two requests, the other way round
Swapped(list) == <<list[3], list[4], list[1], list[2]>>

\* the call has gone through the for loop for every request
Built == pc \in {"reduce", "returned"} /\ document_str # <<>>

\* C1 (nested-selection safety): when the text of one request's selection
\* lies inside the text of the other's and both transforms change their
\* selection, the returned text holds the parent's transformed text with
\* the child's original text replaced, in it, by the child's transformed
\* text, in either order of the requests.
C1_NestedBothApplied ==
    (pc = "returned" /\ document_str # <<>> /\ Len(transforms) = 2) =>
        \A parent, child \in {1, 2} :
            (/\ parent # child
             /\ keyOf(child) # <<>>
             /\ keyOf(child) # keyOf(parent)
             /\ Occurs(keyOf(child), keyOf(parent))
             /\ valOf(parent) # keyOf(parent)
             /\ valOf(child) # keyOf(child))
            => Occurs(replace(valOf(parent), keyOf(child), valOf(child)), outcome.text)

\* C1, where it holds: the same, for a parent whose selection text occurs
\* in the document text
C1_NestedBothAppliedWhenContiguous ==
    (pc = "returned" /\ document_str # <<>> /\ Len(transforms) = 2) =>
        \A parent, child \in {1, 2} :
            (/\ parent # child
             /\ keyOf(child) # <<>>
             /\ keyOf(child) # keyOf(parent)
             /\ Occurs(keyOf(child), keyOf(parent))
             /\ valOf(parent) # keyOf(parent)
             /\ valOf(child) # keyOf(child)
             /\ Occurs(keyOf(parent), baseText))
            => Occurs(replace(valOf(parent), keyOf(child), valOf(child)), outcome.text)

\* C2 (no transform dropped): the call of one request whose selector
\* matches, and whose transform changes the selection, returns a text in
\* which the transformed selection appears.
C2_NoTransformDropped ==
    (pc = "returned" /\ document_str # <<>> /\ Len(transforms) = 1
       /\ keyOf(1) # <<>> /\ valOf(1) # keyOf(1))
    => Occurs(valOf(1), outcome.text)

\* C3 as stated: a call with an odd number of list elements raises the
\* malformed-request error, whatever the document, having done no work.
C3_OddListAlwaysFails ==
    (pc # "call" /\ Len(transform_list) % 2 = 1) =>
        /\ pc = "raised"
        /\ outcome = Raise("EnactException", None)
        /\ performed = {}

\* C3 as amended: the same for every document that is not empty.
C3_OddListFails ==
    (pc # "call" /\ Len(transform_list) % 2 = 1 /\ document_str # <<>>) =>
        /\ pc = "raised"
        /\ outcome = Raise("EnactException", None)
        /\ performed = {}

C3_Witness ==
    /\ pc = "raised"
    /\ Len(transform_list) = 3
    /\ document_str # <<>>

\* C4 (odd chain): a call that holds an action list of odd length does not
\* return.
C4_OddChainFails ==
    (pc = "returned" /\ document_str # <<>>) =>
        \A k \in 1..Len(transforms) : Len(transforms[k][2]) % 2 = 0

\* C5 (transform errors): a call that fails while applying an action list
\* fails with TransformException, naming the function.
C5_FailureIsTransformError ==
    (pc = "raised" /\ "transform" \in performed) =>
        /\ outcome.exc = "TransformException"
        /\ outcome.fn \in Fns

\* every selector is evaluated against the parsed original document: the
\* keys recorded so far are the selections' texts in it
SelectorsSeeOriginal ==
    (pc \in {"for", "reduce", "returned"} /\ document_str # <<>>) =>
        /\ htmldoc = HTML(document_str)
        /\ DOMAIN replace_dict =
              {render(cssSelection(transforms[k][1], HTML(document_str)), None) :
                  k \in 1..(n - 1)}

\* requests a and b are independent: each matches nodes of the document,
\* and no node lies in a subtree matched by both
Independent(a, b) ==
    Matched(a) # {} /\ Matched(b) # {} /\ Matched(a) \cap Matched(b) = {}

\* C6 as stated: selectors see the original document, and two independent
\* requests give the same text in either order.
C6_OrderIndependent ==
    /\ SelectorsSeeOriginal
    /\ (pc = "returned" /\ document_str # <<>> /\ Len(transforms) = 2
          /\ Independent(1, 2))
       => string(document_str, Swapped(transform_list), doctype) = {outcome}

\* C6 as amended: the same for two independent requests whose selection
\* texts differ in length.
C6_OrderIndependentOfUnequalLength ==
    /\ SelectorsSeeOriginal
    /\ (pc = "returned" /\ document_str # <<>> /\ Len(transforms) = 2
          /\ Independent(1, 2)
          /\ Len(keyOf(1)) # Len(keyOf(2)))
       => string(document_str, Swapped(transform_list), doctype) = {outcome}

\* the second request's text occurs in the first's transformed text, so
\* the order of the two substitutions shows in the result
C6_Witness ==
    /\ pc = "returned" /\ document_str # <<>> /\ Len(transforms) = 2
    /\ Independent(1, 2)
    /\ Len(keyOf(1)) > Len(keyOf(2))
    /\ Occurs(keyOf(2), valOf(1))
    /\ valOf(1) # keyOf(1)
    /\ valOf(2) # keyOf(2)

\* the first request of the call whose selection text is key
FirstRequest(key) ==
    CHOOSE k \in 1..Len(transforms) :
        keyOf(k) = key /\ \A m \in 1..(k - 1) : keyOf(m) # key

\* the items the final reduce walks are the dictionary's, each once
ItemsAreTheDict ==
    /\ Len(items) = Cardinality(DOMAIN replace_dict)
    /\ \A a \in 1..Len(items) :
          items[a][1] \in DOMAIN replace_dict /\ items[a][2] = replace_dict[items[a][1]]
    /\ \A a, b \in 1..Len(items) : a # b => items[a][1] # items[b][1]
    /\ j \in 1..(Len(items) + 1)

\* C7 as stated: the pairs are substituted longest original first, and
\* pairs of equally long originals in the order of their requests.
C7_LongestFirstThenRequestOrder ==
    (pc = "reduce") =>
        /\ ItemsAreTheDict
        /\ \A a, b \in 1..Len(items) :
              a < b =>
                \/ Len(items[a][1]) > Len(items[b][1])
                \/ /\ Len(items[a][1]) = Len(items[b][1])
                   /\ FirstRequest(items[a][1]) < FirstRequest(items[b][1])

\* C7 as amended: the pairs are substituted longest original first, so a
\* pair whose original is a strict substring of another's comes after it.
C7_LongestFirst ==
    (pc = "reduce") =>
        /\ ItemsAreTheDict
        /\ \A a, b \in 1..Len(items) :
              /\ a < b => Len(items[a][1]) >= Len(items[b][1])
              /\ (items[a][1] # items[b][1] /\ Occurs(items[a][1], items[b][1])) => b < a

\* the child's request came first and its pair is substituted second
C7_Witness ==
    /\ pc = "reduce"
    /\ Len(items) = 2
    /\ j = 3
    /\ items[2][1] # <<>>
    /\ Occurs(items[2][1], items[1][1])
    /\ keyOf(1) = items[2][1]
    /\ items[1][2] # items[1][1]
    /\ items[2][2] # items[2][1]

\* C8 (last write wins): of two requests with the same selection text, one
\* pair is recorded, its replacement is the later request's, and the
\* returned text is that of the call without the earlier request.
C8_LastWriteWins ==
    Built =>
        \A early, late \in 1..Len(transforms) :
            (/\ early < late
             /\ keyOf(early) = keyOf(late)
             /\ \A m \in (late + 1)..Len(transforms) : keyOf(m) # keyOf(late))
            => /\ replace_dict[keyOf(late)] = valOf(late)
               /\ Cardinality({a \in 1..Len(items) : items[a][1] = keyOf(late)}) = 1
               /\ pc = "returned" =>
                     outcome \in string(document_str,
                                        WithoutRequest(transform_list, early), doctype)

C8_Witness ==
    /\ pc = "returned" /\ document_str # <<>> /\ Len(transforms) = 2
    /\ keyOf(1) = keyOf(2)
    /\ keyOf(1) # <<>>
    /\ valOf(1) # valOf(2)
    /\ valOf(1) # keyOf(1)
    /\ outcome.text # baseText

\* the events of the document no request of the call matches, before the
\* first matched one and after the last
AllMatched == UNION {Matched(k) : k \in 1..Len(transforms)}
BeforeMatches ==
    SubSeq(htmldoc, 1, (CHOOSE i \in AllMatched : \A m \in AllMatched : i <= m) - 1)
AfterMatches ==
    SubSeq(htmldoc, (CHOOSE i \in AllMatched : \A m \in AllMatched : i >= m) + 1,
           Len(htmldoc))

\* C9 as stated (frame): the text of the document before the first matched
\* node and after the last one is in the returned text as it was.
C9_UnmatchedTextUnchanged ==
    (pc = "returned" /\ document_str # <<>> /\ Len(transforms) >= 1
       /\ \A k \in 1..Len(transforms) : Matched(k) # {})
    => LET before == render(BeforeMatches, doctype)
           after == RenderEvents(AfterMatches)
           text == outcome.text
       IN  /\ Len(text) >= Len(before) + Len(after)
           /\ SubSeq(text, 1, Len(before)) = before
           /\ SubSeq(text, Len(text) - Len(after) + 1, Len(text)) = after

\* C9 as amended: a substitution changes the text only from the first
\* occurrence of its pair's original text to the last; the text before
\* and after is kept, and all of it when the original does not occur.
C9_SubstitutionFrame ==
    [][(pc = "reduce" /\ j <= Len(items) /\ j' = j + 1) =>
          LET old == items[j][1]
              first == FirstAt(old, result)
              tail == Len(result) - LastEnd(old, result)
          IN  /\ ~Occurs(old, result) => result' = result
              /\ Occurs(old, result) =>
                    /\ Len(result') >= (first - 1) + tail
                    /\ SubSeq(result', 1, first - 1) = SubSeq(result, 1, first - 1)
                    /\ SubSeq(result', Len(result') - tail + 1, Len(result'))
                          = SubSeq(result, Len(result) - tail + 1, Len(result))]_vars

\* a substitution has changed a text in which its original occurs twice,
\* after other text
C9_Witness ==
    /\ pc = "reduce"
    /\ j = 2
    /\ items[1][1] # <<>>
    /\ FirstAt(items[1][1], baseText) > 1
    /\ FirstAt(items[1][1], baseText) + Len(items[1][1]) <= LastEnd(items[1][1], baseText)
    /\ result # baseText

\* C10 (no match, no effect): the text a call returns is the text the call
\* without a request that matches nothing returns.
C10_NoMatchNoEffect ==
    (pc = "returned" /\ document_str # <<>>) =>
        \A k \in 1..Len(transforms) :
            keyOf(k) = <<>> =>
                outcome \in string(document_str, WithoutRequest(transform_list, k),
                                   doctype)

\* the stepwise call ends as the function says
OutcomeAgrees ==
    pc \in {"returned", "raised"} => outcome \in string(document_str, transform_list, doctype)

====
